---- MODULE Spec2Model ----
\* Model of scripts/load_incidents_v3.py: the scoped multi-file reader
\* (open_many), the k-way merge generator (merge_sort_files), the grouper
\* (collate_multiple_files), the transformer (transform and its helpers),
\* the retrying loader (load) and the driver loop of main.
EXTENDS Integers, Sequences, FiniteSets, TLC

\* ---------------------------------------------------------------- bounds
\* total number of data rows over all input files
MaxRows == 5
\* number of write requests one load call is followed through
MaxPosts == 3
\* total number of data rows over all input files when they need not be sorted
MaxUnsorted == 4
\* number of triples of a field-mapping table
MaxTriples == 2

\* ------------------------------------------------------------- constants
\* main: the files dictionary (source name -> file name)
files == [record |-> "acidentes.csv", vehicles |-> "veiculos.csv", people |-> "vitimas.csv"]

\* main: files.values(), the paths handed to collate_multiple_files
Paths == {files.record, files.vehicles, files.people}

\* main: the join column handed to collate_multiple_files
join_col == "CdAcidente"

\* A JoinId is a string of decimal digits, kept as the sequence of its
\* characters: "1" is <<1>>, "10" is <<1, 0>>. The files carry the ids
\* "1", "2", "3" and "10".
JoinIds == {<<1>>, <<2>>, <<3>>, <<1, 0>>}

\* Python's str comparison a < b: character by character, a proper prefix
\* is smaller.
RECURSIVE StrLess(_, _)
StrLess(a, b) ==
    IF b = <<>> THEN FALSE
    ELSE IF a = <<>> THEN TRUE
    ELSE IF Head(a) # Head(b) THEN Head(a) < Head(b)
    ELSE StrLess(Tail(a), Tail(b))

StrLeq(a, b) == a = b \/ StrLess(a, b)

\* int(a) of a string of digits
RECURSIVE IntOf(_)
IntOf(a) == IF a = <<>> THEN 0 ELSE 10 * IntOf(SubSeq(a, 1, Len(a) - 1)) + a[Len(a)]

\* a min that compares the join ids as numbers
MinNumeric(S) == CHOOSE x \in S : \A y \in S : IntOf(x) <= IntOf(y)

\* the builtin min over the join ids (strings) of the current lines
Min(S) == CHOOSE x \in S : \A y \in S : StrLeq(x, y)

\* ------------------------------------------------------------ input rows
\* csv.DictReader row number i of a file whose join column reads ids[i]; the
\* remaining cells of the row are stood for by its line number
Row(ids, i) == [CdAcidente |-> ids[i], ln |-> i]

RowsOf(ids) == [i \in 1..Len(ids) |-> Row(ids, i)]

Sorted(ids) == \A i \in 1..(Len(ids) - 1) : StrLeq(ids[i], ids[i + 1])

SortedIds(n) == {s \in [1..n -> JoinIds] : Sorted(s)}

\* the sorted id columns of every length up to MaxRows
SortedColumns == [n \in 0..MaxRows |-> SortedIds(n)]

\* the id columns of every length up to MaxUnsorted, in any order
AnyColumns == [n \in 0..MaxUnsorted |-> [1..n -> JoinIds]]

VARIABLES
    csv,        \* file name -> the rows its reader delivers, in file order;
                \* None until the files are opened
    handlers,   \* open_many: file name -> "unopened" | "open" | "closed"
    gen,        \* frame of the merge_sort_files generator
    merged,     \* the triples merge_sort_files has yielded so far
    tgtkey,     \* groupby: key of the run being consumed
    pending,    \* groupby: triple read ahead that starts the next run
    result,     \* collate_multiple_files: the defaultdict being filled
    groups,     \* the GroupedRecords collate_multiple_files has yielded
    record_set, \* main: loop variable
    printed,    \* main: the record_data printed so far
    count,      \* main: count
    uuids,      \* number of uuid4 values generated
    pc,         \* main: where the run is
    exc,        \* the exception that ended the run, or "none"
    call,       \* load: the arguments (obj, api, headers) of the call, or None
    url, data, headers, requests, status, lpc
                \* load: its locals, the requests posted, the last status

pipevars == <<csv, handlers, gen, merged, tgtkey, pending, result, groups,
              record_set, printed, count, uuids, pc, exc>>
loadvars == <<call, url, data, headers, requests, status, lpc>>
vars == <<pipevars, loadvars>>

\* Python's None, and the empty dictionary
None == <<>>

Empty == <<>>

\* ------------------------------------------------------------- open_many
\* an exit from open_many that closes nothing
CloseNone(h) == h

\* the finally clause of open_many: close every handle of handlers
CloseAll(h) == [p \in DOMAIN h |-> IF h[p] = "open" THEN "closed" ELSE h[p]]

\* -------------------------------------------------------- merge_sort_files
\* lines.keys() of Python 2: a list, a snapshot of the keys in the
\* dictionary's own order. The order is fixed by the hashes of the keys,
\* which the source does not determine: any order of the keys D that lines
\* starts with is possible, and it stays the same through a run
DictOrders(D) == {o \in [1..Cardinality(D) -> D] : \A p \in D : \E i \in DOMAIN o : o[i] = p}

RECURSIVE Keys(_, _)
Keys(order, D) ==
    IF order = <<>> THEN <<>>
    ELSE IF Head(order) \in D THEN <<Head(order)>> \o Keys(Tail(order), D)
    ELSE Keys(Tail(order), D)

Restrict(f, D) == [k \in D |-> f[k]]

\* the generator frame before its first next()
GenStart == [mpc |-> "start", order |-> <<>>, lines |-> Empty,
             pos |-> [p \in Paths |-> 0], join_id |-> <<>>, keys |-> <<>>]

\* the first lines read without the try: the StopIteration of a file with no
\* rows ends the generator before it has yielded anything
FirstLinesUncaught(f, P, g) ==
    IF \E p \in P : Len(f[p]) = 0
    THEN [g EXCEPT !.mpc = "while", !.lines = Empty]
    ELSE [g EXCEPT !.mpc = "while",
                   !.lines = [p \in P |-> f[p][1]],
                   !.pos = [p \in DOMAIN g.pos |-> IF p \in P THEN 1 ELSE 0]]

\* lines = {}; for key, reader in readers.items(): lines[key] = next(reader),
\* a file with no rows raising StopIteration and being passed over
FirstLines(f, P, g) ==
    LET nonempty == {p \in P : Len(f[p]) > 0}
    IN  [g EXCEPT !.mpc = "while",
                  !.lines = [p \in nonempty |-> f[p][1]],
                  !.pos = [p \in DOMAIN g.pos |-> IF p \in nonempty THEN 1 ELSE 0]]

\* while lines: join_id = min(...); for key in lines.keys():
WhileLines(g) ==
    IF DOMAIN g.lines = {} THEN [g EXCEPT !.mpc = "stop"]
    ELSE [g EXCEPT !.mpc = "for",
                   !.join_id = Min({g.lines[k][join_col] : k \in DOMAIN g.lines}),
                   !.keys = Keys(g.order, DOMAIN g.lines)]

\* the next key of the for loop and the test of its inner while: the
\* generator stops at the yield when the line carries join_id
ForKey(g) ==
    IF g.keys = <<>> THEN [g EXCEPT !.mpc = "while"]
    ELSE IF g.lines[Head(g.keys)][join_col] = g.join_id THEN [g EXCEPT !.mpc = "yield"]
    ELSE [g EXCEPT !.keys = Tail(g.keys)]

\* a reader that is given up as soon as its next line carries a smaller
\* join id than the one being emitted
NextLineDrop(f, g) ==
    LET key == Head(g.keys)
    IN  IF g.pos[key] < Len(f[key])
           /\ ~StrLess(f[key][g.pos[key] + 1][join_col], g.join_id)
        THEN [g EXCEPT !.mpc = "for",
                       !.lines = [g.lines EXCEPT ![key] = f[key][g.pos[key] + 1]],
                       !.pos = [g.pos EXCEPT ![key] = g.pos[key] + 1]]
        ELSE [g EXCEPT !.mpc = "for",
                       !.lines = Restrict(g.lines, DOMAIN g.lines \ {key}),
                       !.keys = Tail(g.keys)]

\* a reader advanced by two rows where it has them, the first of the two
\* being read and passed over
NextLineAhead(f, g) ==
    LET key == Head(g.keys)
        step == IF g.pos[key] + 2 <= Len(f[key]) THEN 2 ELSE 1
    IN  IF g.pos[key] < Len(f[key])
        THEN [g EXCEPT !.mpc = "for",
                       !.lines = [g.lines EXCEPT ![key] = f[key][g.pos[key] + step]],
                       !.pos = [g.pos EXCEPT ![key] = g.pos[key] + step]]
        ELSE [g EXCEPT !.mpc = "for",
                       !.lines = Restrict(g.lines, DOMAIN g.lines \ {key}),
                       !.keys = Tail(g.keys)]

\* after the yield: line = next(readers[key]); lines[key] = line, or at the
\* end of the file del lines[key]; break
NextLine(f, g) ==
    LET key == Head(g.keys)
    IN  IF g.pos[key] < Len(f[key])
        THEN [g EXCEPT !.mpc = "for",
                       !.lines = [g.lines EXCEPT ![key] = f[key][g.pos[key] + 1]],
                       !.pos = [g.pos EXCEPT ![key] = g.pos[key] + 1]]
        ELSE [g EXCEPT !.mpc = "for",
                       !.lines = Restrict(g.lines, DOMAIN g.lines \ {key}),
                       !.keys = Tail(g.keys)]

\* one next() of the generator: from where it is suspended to its next
\* yield ("yield") or to its end ("stop")
RECURSIVE RunToYield(_)
RunToYield(g) ==
    CASE g.mpc = "while" -> RunToYield(WhileLines(g))
      [] g.mpc = "for" -> RunToYield(ForKey(g))
      [] OTHER -> g

\* an inner "if" in place of the inner "while": after a yield the for loop
\* goes on to the next key even when the new line carries join_id
ResumeIf(f, P, g) ==
    CASE g.mpc = "opened" -> RunToYield(FirstLines(f, P, g))
      [] g.mpc = "yield" ->
            LET n == NextLine(f, g)
            IN  RunToYield(IF n.keys = g.keys THEN [n EXCEPT !.keys = Tail(n.keys)] ELSE n)
      [] OTHER -> g

\* next() on the generator: it starts with the first lines, or goes on
\* after the yield it is suspended at
Resume(f, P, g) ==
    CASE g.mpc = "opened" -> RunToYield(FirstLines(f, P, g))
      [] g.mpc = "yield" -> RunToYield(NextLine(f, g))
      [] OTHER -> g

\* the triple (join_id, key, line) of the yield the generator is stopped at
Yielded(g) == <<g.join_id, Head(g.keys), g.lines[Head(g.keys)]>>

\* list(merge_sort_files(P, join_col)) over the files f, all of them
\* opened, the dictionaries keeping their keys in the order o
RECURSIVE Drain(_, _, _)
Drain(f, P, g) ==
    LET n == Resume(f, P, g)
    IN  IF n.mpc = "yield" THEN <<Yielded(n)>> \o Drain(f, P, n) ELSE <<>>

MergeAll(f, P, o) == Drain(f, P, [GenStart EXCEPT !.mpc = "opened", !.order = o])

\* -------------------------------------------------- collate_multiple_files
\* result[key] = [line]: the line replaces the list instead of joining it
AppendRowReplace(r, key, line) ==
    [k \in DOMAIN r \cup {key} |-> IF k = key THEN <<line>> ELSE r[k]]

\* result[key].append(line) on a defaultdict(list)
AppendRow(r, key, line) ==
    [k \in DOMAIN r \cup {key} |->
        IF k = key THEN (IF k \in DOMAIN r THEN Append(r[k], line) ELSE <<line>>)
        ELSE r[k]]

\* a grouping that ends the run at every triple
SameRunNever(key, t) == key = None

\* groupby(merged_stream, lambda row: row[0]): a triple belongs to the run
\* being consumed when its key equals the key of the run
SameRun(key, t) == key = None \/ key = t[1]

\* the inner loop of collate_multiple_files over one run of groupby: the
\* generator g is resumed and result r filled until a triple of another key
\* or the end of the stream; m is the list of the triples yielded so far
RECURSIVE PullRun(_, _, _, _, _, _)
\* the generator has been resumed and is now n, stopped at the triple t
PullTriple(f, P, n, t, key, r, m) ==
    IF SameRun(key, t)
    THEN PullRun(f, P, n, t[1], AppendRow(r, t[2], t[3]), Append(m, t))
    ELSE [gen |-> n, key |-> key, result |-> r, merged |-> Append(m, t), pending |-> t]

PullResumed(f, P, n, key, r, m) ==
    IF n.mpc # "yield"
    THEN [gen |-> n, key |-> key, result |-> r, merged |-> m, pending |-> None]
    ELSE PullTriple(f, P, n, Yielded(n), key, r, m)

PullRun(f, P, g, key, r, m) == PullResumed(f, P, Resume(f, P, g), key, r, m)

\* list(collate_multiple_files(...)) over the stream ts of triples, key and
\* r being the key and the result of the run being consumed
RECURSIVE Fold(_, _, _)
Fold(ts, key, r) ==
    IF ts = <<>> THEN (IF key = None THEN <<>> ELSE <<[id |-> key, rows |-> r]>>)
    ELSE IF SameRun(key, Head(ts))
         THEN Fold(Tail(ts), Head(ts)[1], AppendRow(r, Head(ts)[2], Head(ts)[3]))
         ELSE <<[id |-> key, rows |-> r]>>
              \o Fold(Tail(ts), Head(ts)[1], AppendRow(Empty, Head(ts)[2], Head(ts)[3]))

CollateAll(f, P, o) == Fold(MergeAll(f, P, o), None, Empty)

\* ------------------------------------------------------------- transform
\* the cast functions of the mapping tables
Cast(cast_func, value) == IF cast_func = "int" THEN IntOf(value) ELSE value

\* A cell is a string, kept as the sequence of its characters: a digit is
\* the number it writes, any other character is its code ("N" is 78)
IsDigits(value) == value # <<>> /\ \A i \in DOMAIN value : value[i] \in 0..9

\* int(value) raises ValueError on a string that is not a number; str(value)
\* of a string never raises
CastRaises(cast_func, value) == cast_func = "int" /\ ~IsDigits(value)

\* format_record_object raises when the cast of a column the row has raises
FormatRaises(row, mapping) ==
    \E i \in DOMAIN mapping :
        /\ mapping[i][1] \in DOMAIN row
        /\ CastRaises(mapping[i][3], row[mapping[i][1]])

\* a lookup data.get(csv_key) in place of data[csv_key]: a column the row
\* lacks gives a field holding None
format_record_objectGet(row, mapping, uid) ==
    [k \in {mapping[i][2] : i \in DOMAIN mapping} \cup {"_localId"} |->
        IF k = "_localId" THEN uid
        ELSE LET i == CHOOSE j \in DOMAIN mapping : mapping[j][2] = k
             IN  IF mapping[i][1] \in DOMAIN row
                 THEN Cast(mapping[i][3], row[mapping[i][1]])
                 ELSE <<>>]

\* format_record_object: the mapping is a list of (csv_key, driver_key,
\* cast_func); a csv_key the row lacks is passed over (KeyError, continue)
format_record_object(row, mapping, uid) ==
    LET used == {i \in 1..Len(mapping) : mapping[i][1] \in DOMAIN row}
        last(k) == CHOOSE i \in used : mapping[i][2] = k
                       /\ \A j \in used : mapping[j][2] = k => j <= i
    IN  [k \in {mapping[i][2] : i \in used} \cup {"_localId"} |->
            IF k = "_localId" THEN uid
            ELSE Cast(mapping[last(k)][3], row[mapping[last(k)][1]])]

\* the mapping tables of construct_record_data; every csv_key in them is the
\* empty string, and the target field written INTERSECAO? here carries a
\* cedilla and a tilde in the source
IncidentMapping ==
    <<  <<"", "Log1", "int">>, <<"", "Numero", "int">>, <<"", "CodReferencia", "int">>,
        <<"", "Log2", "int">>, <<"", "Log3", "int">>, <<"", "CodIntersecao", "int">>,
        <<"", "Jurisdicao", "str">>, <<"", "CodNatureza", "int">>,
        <<"", "TipoCruzamento", "int">>, <<"", "INTERSECAO?", "str">>,
        <<"", "Natureza", "str">>  >>

PersonMapping ==
    <<  <<"", "CdPessoa", "int">>, <<"", "CdGravidadeLesao", "int">>, <<"", "Sexo", "str">>,
        <<"", "TipoPessoa", "int">>, <<"", "CdVeiculo", "int">>, <<"", "Idade", "int">>  >>

VehicleMapping ==
    <<  <<"", "CdVeiculo", "int">>, <<"", "Ano", "int">>, <<"", "TipoVeiculo", "str">>,
        <<"", "Linha", "int">>  >>

\* a record whose blocks all carry the one identifier generated for the record
construct_record_dataShared(record, persons, vehicles, u) ==
    [driverIncidentDetails |-> format_record_object(record, IncidentMapping, u + 1),
     driverPerson |-> [i \in 1..Len(persons) |->
                          format_record_object(persons[i], PersonMapping, u + 1)],
     driverVehicle |-> [i \in 1..Len(vehicles) |->
                          format_record_object(vehicles[i], VehicleMapping, u + 1)]]

\* construct_record_data(record, persons, vehicles); u is the number of
\* uuid4 values generated before the call
construct_record_data(record, persons, vehicles, u) ==
    [driverIncidentDetails |-> format_record_object(record, IncidentMapping, u + 1),
     driverPerson |-> [i \in 1..Len(persons) |->
                          format_record_object(persons[i], PersonMapping, u + 1 + i)],
     driverVehicle |-> [i \in 1..Len(vehicles) |->
                          format_record_object(vehicles[i], VehicleMapping,
                                               u + 1 + Len(persons) + i)]]

\* transform(record, vehicles, people, schema_id): the date and the point
\* are computed from cells of the record, which its line number stands for
transform(record, vehicles, people, schema_id, u) ==
    [data |-> construct_record_data(record, vehicles, people, u),
     schema |-> schema_id,
     occurred_from |-> <<"isoformat", record.ln>>,
     occurred_to |-> <<"isoformat", record.ln>>,
     geom |-> <<"POINT", record.ln>>]

\* ------------------------------------------------------------------ load
\* json.dumps(obj): the JSON text of obj
json_dumps(obj) == <<"json", obj>>

\* headers = dict(headers); headers.setdefault('content-type', ...)
SetDefault(h) ==
    [k \in DOMAIN h \cup {"content-type"} |->
        IF k \in DOMAIN h THEN h[k] ELSE "application/json"]

\* a test that takes every 2xx status for the acknowledgment
AnySuccess(code) == code \in 200..299

\* response.status_code == 201
Acknowledged(code) == code = 201

\* a loop that gives up after its second attempt
WhileAttempts(attempts) == attempts < 2

\* while True: the loop condition after any number of attempts made
WhileTrue(attempts) == TRUE

\* the status codes the sink answers with
StatusCodes == {200, 201, 400, 500}

\* the arguments load is called with
ApiUrls == {"http://localhost:7000/api"}

HeaderArgs ==
    {None, [Authorization |-> "Token t"],
     ("Authorization" :> "Token t") @@ ("content-type" :> "text/plain")}

\* --------------------------------------------------------------- pipeline
\* dict.get(key, []) and defaultdict(list)[key]
Get(d, key) == IF key \in DOMAIN d THEN d[key] ELSE <<>>

\* main: record_set[files['record']][0] inside try ... except KeyError. The
\* subscript of the defaultdict gives [] for a missing key, and [0] of an
\* empty list raises IndexError
AnchorLookup(rs) == IF Get(rs, files.record) = <<>> THEN "IndexError" ELSE "none"

\* except KeyError: the exceptions the clause catches
ExceptKeyError(e) == e = "KeyError"

\* what a call of transform ends in: parser.parse of the date and time cells
\* and float of the coordinate cells raise ValueError on a cell they cannot
\* read, and the subscript of a column the file lacks raises KeyError, all
\* before any object is formatted. The cells are stood for by the row's line
\* number, so each outcome is possible for a row
TransformOutcomes == {"none", "ValueError", "KeyError"}

\* a handler around transform that passes the record over
TransformSkipped(e) == e # "none"

\* main calls transform outside any try: no exception it raises is caught
TransformCaught(e) == FALSE

\* a count that is incremented for every record printed
CountIncremented(c) == c + 1

\* main: count on the path print(...); continue, which passes over
\* count += 1
CountAtContinue(c) == c

\* main: args.schema_id, or the uuid create_schema returns
schema_id == "schema"

\* the contents the three files can have: each sorted by the join column
FileContents(a, b, c) ==
    [p \in Paths |-> CASE p = files.record -> RowsOf(a)
                       [] p = files.vehicles -> RowsOf(b)
                       [] OTHER -> RowsOf(c)]

Init ==
    /\ csv = None
    /\ handlers = [p \in Paths |-> "unopened"]
    /\ gen = GenStart
    /\ merged = <<>>
    /\ tgtkey = None
    /\ pending = None
    /\ result = Empty
    /\ groups = <<>>
    /\ record_set = None
    /\ printed = <<>>
    /\ count = 0
    /\ uuids = 0
    /\ pc = "collate"
    /\ exc = "none"
    /\ call = None /\ url = None /\ data = None /\ headers = None
    /\ requests = <<>> /\ status = 0 /\ lpc = "idle"

\* open_many as entered by the first next() of merge_sort_files: every
\* path opens, onto a file of rows sorted by the join column, or one open()
\* raises after some of the others were opened.
\* No statement closes those; whether the runtime has reclaimed an
\* unreferenced file object by then is left open.
OpenMany ==
    /\ pc = "collate" /\ gen.mpc = "start"
    /\ \/ \E la \in 0..MaxRows : \E lb \in 0..(MaxRows - la) : \E lc \in 0..(MaxRows - la - lb) :
          \E a \in SortedColumns[la] : \E b \in SortedColumns[lb] : \E c \in SortedColumns[lc] :
          \E f \in {FileContents(a, b, c)} :
          \E o \in DictOrders({p \in Paths : f[p] # <<>>}) :
            /\ csv' = f
            /\ handlers' = [p \in Paths |-> "open"]
            /\ gen' = [gen EXCEPT !.mpc = "opened", !.order = o]
            /\ UNCHANGED <<pc, exc>>
       \/ \E bad \in Paths : \E done \in SUBSET (Paths \ {bad}) : \E kept \in SUBSET done :
            /\ handlers' = [p \in Paths |-> IF p \in kept THEN "open"
                                            ELSE IF p \in done THEN "closed"
                                            ELSE "unopened"]
            /\ gen' = [gen EXCEPT !.mpc = "raised"]
            /\ pc' = "raised" /\ exc' = "IOError"
            /\ csv' = csv
    /\ UNCHANGED <<merged, tgtkey, pending, result, groups, record_set,
                   printed, count, uuids, loadvars>>

\* one next() of collate_multiple_files: groupby draws triples from the
\* merged stream and result is filled while they belong to the run being
\* consumed; the first triple of another run is kept by groupby and result
\* is yielded to the caller. At the end of the stream open_many's finally
\* closes the files and the last result is yielded
CollateNext ==
    /\ pc = "collate" /\ gen.mpc \in {"opened", "yield"}
    /\ \E x \in {PullRun(csv, Paths, gen, tgtkey, result, merged)} :
           /\ gen' = x.gen
           /\ merged' = x.merged
           /\ tgtkey' = x.key
           /\ result' = x.result
           /\ pending' = x.pending
           /\ handlers' = IF x.gen.mpc = "stop" THEN CloseAll(handlers) ELSE handlers
           /\ IF x.key = None
              THEN /\ pc' = "done"
                   /\ UNCHANGED <<groups, record_set>>
              ELSE /\ groups' = Append(groups, [id |-> x.key, rows |-> x.result])
                   /\ record_set' = x.result
                   /\ pc' = "main"
    /\ UNCHANGED <<csv, printed, count, uuids, exc, loadvars>>

\* next() on collate_multiple_files after it yielded result: groupby starts
\* the next run with the triple it read ahead, or the stream has ended
CollateResume ==
    IF pending = None
    THEN /\ pc' = "done"
         /\ UNCHANGED <<tgtkey, result, pending>>
    ELSE /\ pc' = "collate"
         /\ tgtkey' = pending[1]
         /\ result' = AppendRow(Empty, pending[2], pending[3])
         /\ pending' = None

\* the body of main's for loop for one record_set, up to the next() that
\* resumes collate_multiple_files; an exception of transform ends the run;
\* load and count += 1 stand after the continue that follows print and are
\* never reached
MainBody ==
    /\ pc = "main"
    /\ LET e == AnchorLookup(record_set)
       IN  IF e # "none" /\ ~ExceptKeyError(e)
           THEN /\ pc' = "raised" /\ exc' = e
                /\ UNCHANGED <<printed, uuids, count, tgtkey, result, pending>>
           ELSE IF e # "none"
           THEN /\ UNCHANGED <<printed, uuids, count, exc>>
                /\ CollateResume
           ELSE \E t \in TransformOutcomes :
                  IF t # "none" /\ ~TransformCaught(t)
                  THEN /\ pc' = "raised" /\ exc' = t
                       /\ UNCHANGED <<printed, uuids, count, tgtkey, result, pending>>
                  ELSE IF t # "none"
                  THEN /\ UNCHANGED <<printed, uuids, count, exc>>
                       /\ CollateResume
                  ELSE LET record == record_set[files.record][1]
                           vehicles == Get(record_set, files.vehicles)
                           people == Get(record_set, files.people)
                       IN  /\ printed' = Append(printed,
                                   transform(record, vehicles, people, schema_id, uuids))
                           /\ uuids' = uuids + 1 + Len(vehicles) + Len(people)
                           /\ count' = CountAtContinue(count)
                           /\ exc' = exc
                           /\ CollateResume
    /\ UNCHANGED <<csv, handlers, gen, merged, groups, record_set, loadvars>>

\* a caller that only iterates: for record_set in collate_multiple_files(...)
Consume ==
    /\ pc = "main"
    /\ CollateResume
    /\ UNCHANGED <<csv, handlers, gen, merged, groups, record_set, printed, count,
                   uuids, exc, loadvars>>

\* the abandoned generator is finalised after an exception ended main:
\* GeneratorExit is raised at its yield and open_many's finally runs
GenClose ==
    /\ pc = "raised" /\ gen.mpc = "yield"
    /\ gen' = [gen EXCEPT !.mpc = "closed"]
    /\ handlers' = CloseAll(handlers)
    /\ UNCHANGED <<csv, merged, tgtkey, pending, result, groups, record_set,
                   printed, count, uuids, pc, exc, loadvars>>

Next == OpenMany \/ CollateNext \/ MainBody \/ GenClose

Spec == Init /\ [][Next]_vars

\* collate_multiple_files iterated to its end by a caller that does
\* nothing else
NextCollate == OpenMany \/ CollateNext \/ Consume

SpecCollate == Init /\ [][NextCollate]_vars

\* open_many over files whose rows are in any order: merge_sort_files reads
\* what the readers deliver and never tests the order
OpenAny ==
    /\ pc = "collate" /\ gen.mpc = "start"
    /\ \E la \in 0..MaxUnsorted : \E lb \in 0..(MaxUnsorted - la) :
       \E lc \in 0..(MaxUnsorted - la - lb) :
       \E a \in AnyColumns[la] : \E b \in AnyColumns[lb] : \E c \in AnyColumns[lc] :
       \E f \in {FileContents(a, b, c)} :
       \E o \in DictOrders({p \in Paths : f[p] # <<>>}) :
         /\ csv' = f
         /\ handlers' = [p \in Paths |-> "open"]
         /\ gen' = [gen EXCEPT !.mpc = "opened", !.order = o]
    /\ UNCHANGED <<pc, exc, merged, tgtkey, pending, result, groups, record_set,
                   printed, count, uuids, loadvars>>

\* collate_multiple_files iterated to its end over files in any order
NextUnsorted == OpenAny \/ CollateNext \/ Consume

SpecUnsorted == Init /\ [][NextUnsorted]_vars

\* ------------------------------------------- format_record_object alone
\* the columns a row can have, the cells they can hold ("1", "10", "N") and
\* the rows made of them
FormatColumns == {"", "CdVeiculo", "Ano"}

CellValues == {<<1>>, <<1, 0>>, <<78>>}

FormatRows == UNION {[D -> CellValues] : D \in SUBSET FormatColumns}

\* the field-mapping tables: up to MaxTriples triples (csv_key, driver_key,
\* cast_func), each with a target field of its own, as in the tables of
\* construct_record_data
FormatTriples == FormatColumns \X {"CdVeiculo", "Ano", "TipoVeiculo"} \X {"int", "str"}

FormatTables ==
    {m \in UNION {[1..n -> FormatTriples] : n \in 0..MaxTriples} :
        \A i \in DOMAIN m : \A j \in DOMAIN m : i # j => m[i][2] # m[j][2]}

InitFormat ==
    /\ csv = None
    /\ handlers = [p \in Paths |-> "unopened"]
    /\ gen = GenStart
    /\ merged = <<>> /\ tgtkey = None /\ pending = None /\ result = Empty
    /\ groups = <<>> /\ record_set = None /\ printed = <<>>
    /\ count = 0 /\ uuids = 0 /\ pc = "format" /\ exc = "none"
    /\ \E row \in FormatRows : \E m \in FormatTables :
          call = [data |-> row, mapping |-> m]
    /\ url = None /\ data = None /\ headers = None
    /\ requests = <<>> /\ status = 0 /\ lpc = "idle"

\* one call format_record_object(data, mapping): it returns the object, kept
\* in printed, or the cast of a column raises
Format ==
    /\ pc = "format"
    /\ IF FormatRaises(call.data, call.mapping)
       THEN /\ pc' = "raised" /\ exc' = "ValueError"
            /\ UNCHANGED <<printed, uuids>>
       ELSE /\ printed' = <<format_record_object(call.data, call.mapping, uuids + 1)>>
            /\ uuids' = uuids + 1
            /\ pc' = "formatted" /\ exc' = exc
    /\ UNCHANGED <<csv, handlers, gen, merged, tgtkey, pending, result, groups,
                   record_set, count, loadvars>>

NextFormat == Format

SpecFormat == InitFormat /\ [][NextFormat]_vars

\* ------------------------------------------------------------ load alone
\* the objects load is called with: records as transform builds them
LoadObjs ==
    {transform(Row(<< <<1>> >>, 1), <<>>, <<>>, schema_id, 0),
     transform(Row(<< <<2>> >>, 1), RowsOf(<< <<2>> >>), <<>>, schema_id, 0)}

InitLoad ==
    /\ csv = None
    /\ handlers = [p \in Paths |-> "unopened"]
    /\ gen = GenStart
    /\ merged = <<>> /\ tgtkey = None /\ pending = None /\ result = Empty
    /\ groups = <<>> /\ record_set = None /\ printed = <<>>
    /\ count = 0 /\ uuids = 0 /\ pc = "load" /\ exc = "none"
    /\ \E obj \in LoadObjs : \E api \in ApiUrls : \E h \in HeaderArgs :
          call = [obj |-> obj, api |-> api, headers |-> h]
    /\ url = None /\ data = None /\ headers = None
    /\ requests = <<>> /\ status = 0 /\ lpc = "call"

\* the statements of load before its loop
LoadEnter ==
    /\ lpc = "call"
    /\ url' = call.api \o "/records/"
    /\ data' = json_dumps(call.obj)
    /\ headers' = SetDefault(IF call.headers = None THEN Empty ELSE call.headers)
    /\ lpc' = "while"
    /\ UNCHANGED <<pipevars, call, requests, status>>

\* one turn of while True: requests.post, sleep, and the test of the status
\* code, which returns or logs and goes round again; a post that raises
\* instead of answering ends load with that exception
Post ==
    /\ lpc = "while"
    /\ Len(requests) < MaxPosts
    /\ \/ \E code \in StatusCodes :
            /\ requests' = Append(requests, [url |-> url, data |-> data,
                                             headers |-> headers, status_code |-> code])
            /\ status' = code
            /\ lpc' = IF Acknowledged(code) \/ ~WhileTrue(Len(requests) + 1)
                      THEN "returned" ELSE "while"
            /\ exc' = exc
       \/ /\ requests' = Append(requests, [url |-> url, data |-> data,
                                           headers |-> headers, status_code |-> 0])
          /\ lpc' = "raised"
          /\ exc' = "ConnectionError"
          /\ status' = status
    /\ UNCHANGED <<csv, handlers, gen, merged, tgtkey, pending, result, groups,
                   record_set, printed, count, uuids, pc, call, url, data, headers>>

NextLoad == LoadEnter \/ Post

SpecLoad == InitLoad /\ [][NextLoad]_vars

\* the write requests the sink has acknowledged with 201
Acked == SelectSeq(requests, LAMBDA r : r.status_code = 201)

\* ================================================================ claims
\* the rows of file p that carry the join id x, in file order
RowsWith(p, x) == SelectSeq(csv[p], LAMBDA r : r[join_col] = x)

\* the join ids that occur in some file
AllIds == UNION {{csv[p][i][join_col] : i \in DOMAIN csv[p]} : p \in DOMAIN csv}

\* C1: the triples merge_sort_files has yielded have non-decreasing join ids
\* in string order, each triple carries the join id of its own row, and the
\* triples of one join id are contiguous
C1_MergedOrdered ==
    /\ \A i \in DOMAIN merged : merged[i][1] = merged[i][3][join_col]
    /\ \A i \in 1..(Len(merged) - 1) : StrLeq(merged[i][1], merged[i + 1][1])
    /\ \A i \in DOMAIN merged : \A k \in DOMAIN merged : \A j \in i..k :
          merged[i][1] = merged[k][1] => merged[j][1] = merged[i][1]

\* a finished merge in which "10" from one file precedes "2" from another
C1_Witness ==
    /\ pc = "done"
    /\ \E i \in DOMAIN merged : \E j \in DOMAIN merged :
          /\ i < j
          /\ merged[i][1] = <<1, 0>> /\ merged[j][1] = <<2>>
          /\ merged[i][2] # merged[j][2]

\* the fixture of the specification: A with ids 1, 1, 2, B with ids 1, 3, C empty
FixtureCsv ==
    [p \in Paths |-> CASE p = files.record -> RowsOf(<< <<1>>, <<1>>, <<2>> >>)
                       [] p = files.vehicles -> RowsOf(<< <<1>>, <<3>> >>)
                       [] OTHER -> <<>>]

FixtureGroups ==
    << [id |-> <<1>>,
        rows |-> [p \in {files.record, files.vehicles} |->
                    IF p = files.record
                    THEN <<Row(<< <<1>>, <<1>>, <<2>> >>, 1), Row(<< <<1>>, <<1>>, <<2>> >>, 2)>>
                    ELSE <<Row(<< <<1>>, <<3>> >>, 1)>>]],
       [id |-> <<2>>, rows |-> [p \in {files.record} |-> <<Row(<< <<1>>, <<1>>, <<2>> >>, 3)>>]],
       [id |-> <<3>>, rows |-> [p \in {files.vehicles} |-> <<Row(<< <<1>>, <<3>> >>, 2)>>]] >>

\* C2: every GroupedRecord yielded maps each file to exactly that file's
\* rows with the group's join id, in file order, and has no key for a file
\* without such a row; at the end every row is in the group of its join id;
\* the fixture yields groups 1 (A twice, B once), 2 (A once), 3 (B once)
C2_GroupContents ==
    /\ \A i \in DOMAIN groups :
          /\ DOMAIN groups[i].rows = {p \in Paths : RowsWith(p, groups[i].id) # <<>>}
          /\ \A p \in DOMAIN groups[i].rows : groups[i].rows[p] = RowsWith(p, groups[i].id)
    /\ pc = "done" =>
          \A p \in Paths : \A n \in DOMAIN csv[p] : \E i \in DOMAIN groups :
              /\ groups[i].id = csv[p][n][join_col]
              /\ p \in DOMAIN groups[i].rows
    /\ (pc = "done" /\ csv = FixtureCsv) => groups = FixtureGroups

C2_Witness == pc = "done" /\ csv = FixtureCsv /\ Len(groups) = 3

\* C3: the GroupedRecords are yielded in strictly ascending join id order,
\* so never two for one join id, and at the end there is one for every join
\* id that occurs in a file
C3_OneGroupPerId ==
    /\ \A i \in DOMAIN groups : \A j \in DOMAIN groups :
          i < j => StrLess(groups[i].id, groups[j].id)
    /\ pc = "done" => {groups[i].id : i \in DOMAIN groups} = AllIds

\* a finished run with three groups, one of them of several rows of one file
C3_Witness ==
    /\ pc = "done" /\ Len(groups) >= 3
    /\ \E i \in DOMAIN groups : \E p \in DOMAIN groups[i].rows : Len(groups[i].rows[p]) >= 2

\* the files that have at least one row
NonEmptyPaths == {p \in DOMAIN csv : csv[p] # <<>>}

\* C10: a file with zero rows is never a current line, never the source of a
\* triple and never a key of a GroupedRecord, it ends the run with no error,
\* and the triples and the GroupedRecords of a finished run are those of a
\* run over any set of paths that leaves out some or all of the empty files
C10_EmptyTransparent ==
    /\ \A p \in DOMAIN csv \ NonEmptyPaths :
          /\ p \notin DOMAIN gen.lines
          /\ \A i \in DOMAIN merged : merged[i][2] # p
          /\ \A i \in DOMAIN groups : p \notin DOMAIN groups[i].rows
    /\ pc = "raised" => exc = "IOError"
    /\ pc = "done" =>
          \A Q \in SUBSET Paths :
              NonEmptyPaths \subseteq Q =>
                  LET m == MergeAll(csv, Q, gen.order)
                  IN  merged = m /\ groups = Fold(m, None, Empty)

\* a finished run over an empty file and two files that share a group
C10_Witness ==
    /\ pc = "done"
    /\ Cardinality(NonEmptyPaths) = 2
    /\ Len(groups) >= 2
    /\ \E i \in DOMAIN groups : Cardinality(DOMAIN groups[i].rows) = 2

\* C6: every request of one load call carries the same URL, body and headers;
\* a further request is issued only after an answer other than 201; load has
\* returned exactly when the last answer was 201, so k answers other than
\* 201 followed by 201 make exactly k + 1 requests, and load goes on after
\* any other status
C6_RetryUntil201 ==
    /\ \A i \in DOMAIN requests :
          /\ requests[i].url = call.api \o "/records/"
          /\ requests[i].data = json_dumps(call.obj)
          /\ requests[i].headers = requests[1].headers
          /\ requests[i].headers["content-type"] =
                IF call.headers # None /\ "content-type" \in DOMAIN call.headers
                THEN call.headers["content-type"] ELSE "application/json"
    /\ \A i \in 1..(Len(requests) - 1) : requests[i].status_code # 201
    /\ lpc = "returned" <=> (requests # <<>> /\ requests[Len(requests)].status_code = 201)

\* two answers other than 201, then 201: three requests and load has returned
C6_Witness ==
    /\ lpc = "returned" /\ Len(requests) = 3
    /\ requests[1].status_code = 500 /\ requests[2].status_code = 200

\* C7: once the with block of merge_sort_files has been left, by the end of
\* the merge or by an exception raised at its yield, every handle that
\* open_many opened is closed
C7_ClosedAfterScope ==
    gen.mpc \in {"stop", "closed"} => \A p \in Paths : handlers[p] = "closed"

\* the generator was abandoned at a yield by a failing run and then finalised
C7_Witness ==
    /\ gen.mpc = "closed" /\ exc = "IndexError"
    /\ merged # <<>>
    /\ \A p \in Paths : handlers[p] = "closed"

\* C8 as claimed: when an open() of open_many fails, no handle that an
\* earlier open() of the same call returned is left open
C8_Claim == exc = "IOError" => \A p \in Paths : handlers[p] # "open"

\* C4 as claimed: main's body, given a record_set with no row of the
\* incidents file, prints nothing for it, raises nothing and goes on to the
\* next record_set or to the end of the stream
C4_Claim ==
    [][(pc = "main" /\ Get(record_set, files.record) = <<>>)
          => (printed' = printed /\ pc' \in {"collate", "done"} /\ exc' = "none")]_vars

\* the groups yielded so far that have a row of the incidents file
AnchoredGroups == {i \in DOMAIN groups : files.record \in DOMAIN groups[i].rows}

\* C5 as claimed: at the end of a completed run the sink has acknowledged
\* with 201 one write request for every group that has an anchor row
C5_Claim == pc = "done" => Len(Acked) = Cardinality(AnchoredGroups)

\* a mapped object without its generated identifier
NoLocalId(o) == [k \in DOMAIN o \ {"_localId"} |-> o[k]]

\* C9 as claimed: in the record main builds for a record_set, driverVehicle
\* holds one entry per row of the vehicles file, mapped with the vehicle
\* table, and driverPerson one entry per row of the people file, mapped
\* with the person table
C9_Claim ==
    [][(pc = "main" /\ printed' # printed) =>
          LET out == printed'[Len(printed')].data
              vehicles == Get(record_set, files.vehicles)
              people == Get(record_set, files.people)
          IN  /\ Len(out.driverVehicle) = Len(vehicles)
              /\ Len(out.driverPerson) = Len(people)
              /\ \A i \in DOMAIN vehicles :
                    NoLocalId(out.driverVehicle[i])
                        = NoLocalId(format_record_object(vehicles[i], VehicleMapping, 0))
              /\ \A i \in DOMAIN people :
                    NoLocalId(out.driverPerson[i])
                        = NoLocalId(format_record_object(people[i], PersonMapping, 0))]_vars

\* the objects format_record_object has produced for one printed record: the
\* primary block and every entry of the two sub-block lists
ObjectsOf(rec) ==
    <<rec.data.driverIncidentDetails>> \o rec.data.driverPerson \o rec.data.driverVehicle

\* the objects emitted over the run so far, in the order of their emission
RECURSIVE ObjectsOfAll(_)
ObjectsOfAll(recs) ==
    IF recs = <<>> THEN <<>> ELSE ObjectsOf(Head(recs)) \o ObjectsOfAll(Tail(recs))

\* C11: every object format_record_object has produced in the run carries
\* "_localId", the identifier comes from a generation step of its own (as
\* many identifiers were generated as objects were emitted), and no two
\* emitted objects share an identifier
C11_LocalIdsDistinct ==
    LET objs == ObjectsOfAll(printed)
    IN  /\ \A i \in DOMAIN objs : "_localId" \in DOMAIN objs[i]
        /\ Len(objs) = uuids
        /\ \A i \in DOMAIN objs : \A j \in DOMAIN objs :
               i # j => objs[i]["_localId"] # objs[j]["_localId"]

\* two records emitted, one of them with a vehicle entry and a person entry
C11_Witness ==
    /\ Len(printed) >= 2
    /\ \E i \in DOMAIN printed :
          /\ Len(printed[i].data.driverPerson) >= 1
          /\ Len(printed[i].data.driverVehicle) >= 1

\* the rows of file p among the triples ts, in the order of the triples
RECURSIVE RowsFrom(_, _)
RowsFrom(ts, p) ==
    IF ts = <<>> THEN <<>>
    ELSE IF Head(ts)[2] = p THEN <<Head(ts)[3]>> \o RowsFrom(Tail(ts), p)
    ELSE RowsFrom(Tail(ts), p)

\* the number of rows in all the files
TotalRows ==
    Len(csv[files.record]) + Len(csv[files.vehicles]) + Len(csv[files.people])

\* C12: over files in any order, sorted or not, merge_sort_files raises
\* nothing and ends: every next() either yields at least one more triple or
\* finds the end of the stream, and there are never more triples than rows.
\* The triples of each file are at all times a prefix of the file's rows in
\* file order (no row lost, duplicated or reordered), and at the end they
\* are all its rows, each in exactly one GroupedRecord
C12_UnsortedComplete ==
    /\ [](csv # None =>
            /\ exc = "none" /\ gen.mpc # "raised"
            /\ Len(merged) <= TotalRows
            /\ \A p \in Paths :
                  LET rows == RowsFrom(merged, p)
                  IN  /\ Len(rows) <= Len(csv[p])
                      /\ rows = SubSeq(csv[p], 1, Len(rows))
            /\ \A i \in DOMAIN merged : merged[i][1] = merged[i][3][join_col]
            /\ pc = "done" =>
                  /\ gen.mpc = "stop"
                  /\ \A p \in Paths :
                        /\ RowsFrom(merged, p) = csv[p]
                        /\ \A n \in DOMAIN csv[p] :
                              Cardinality({i \in DOMAIN groups :
                                  /\ p \in DOMAIN groups[i].rows
                                  /\ \E k \in DOMAIN groups[i].rows[p] :
                                        groups[i].rows[p][k] = csv[p][n]}) = 1)
    /\ [][(pc = "collate" /\ csv # None) =>
              (Len(merged') > Len(merged) \/ gen'.mpc = "stop")]_vars

\* a finished run over a file that is not sorted: the triples of one join id
\* are not contiguous and two GroupedRecords carry the same join id
C12_Witness ==
    /\ pc = "done"
    /\ \E p \in Paths : ~Sorted([i \in DOMAIN csv[p] |-> csv[p][i][join_col]])
    /\ \E i \in DOMAIN groups : \E j \in DOMAIN groups : i < j /\ groups[i].id = groups[j].id
    /\ \E i \in DOMAIN merged : \E k \in DOMAIN merged : \E j \in i..k :
          merged[i][1] = merged[k][1] /\ merged[j][1] # merged[i][1]

\* the status code of the last write request, 0 when the post raised
LastStatus == requests[Len(requests)].status_code

\* C13: a turn of load's loop in which the sink answers with a status other
\* than 201 leaves load in its loop, whatever the number of attempts made,
\* with the URL, body and headers of the request unchanged and with nothing
\* of the pipeline's state changed (no later group is read, transformed or
\* delivered while load runs); a turn in which the sink answers 201 returns;
\* load has never returned without a 201 and has never raised after an
\* answer of the sink
C13_BlocksUntil201 ==
    /\ [][(requests' # requests /\ requests'[Len(requests')].status_code \notin {0, 201}) =>
              /\ lpc' = "while"
              /\ requests'[Len(requests')].url = requests'[1].url
              /\ requests'[Len(requests')].data = requests'[1].data
              /\ requests'[Len(requests')].headers = requests'[1].headers
              /\ UNCHANGED <<pipevars, call, url, data, headers>>]_vars
    /\ [][(requests' # requests /\ requests'[Len(requests')].status_code = 201) =>
              lpc' = "returned"]_vars
    /\ [](lpc = "returned" => LastStatus = 201)
    /\ [](lpc = "raised" => LastStatus = 0)

\* as many answers other than 201 as the run is followed for, and load is
\* still in its loop
C13_Witness ==
    /\ lpc = "while" /\ Len(requests) = MaxPosts
    /\ \A i \in DOMAIN requests : requests[i].status_code \in {200, 400, 500}

\* C14 as claimed: after a delivery attempt that ended in anything other
\* than a 201, a write request that got no HTTP response included, load is
\* in its loop for the next attempt and nothing has propagated out of it
C14_Claim ==
    (requests # <<>> /\ LastStatus # 201) => (lpc = "while" /\ exc = "none")

\* the number of rows of file p that merge_sort_files has yielded
Emitted(p) == Len(RowsFrom(merged, p))

\* C15: over sorted files, whenever merge_sort_files is suspended or has
\* ended, lines holds for each file at most its one current row, which is
\* the last row read from the file; every row read before it has been
\* yielded, and the current row itself has not, unless it is the row of the
\* yield the generator is suspended at; a file whose reader is exhausted has
\* no entry in lines and all its rows have been yielded. And when the
\* GroupedRecord of join id X is handed to the caller, every row that any
\* file has been advanced past carries an id not greater than X
C15_OneRowHeld ==
    /\ gen.mpc \in {"yield", "stop"} =>
          \A p \in Paths :
              IF p \in DOMAIN gen.lines
              THEN /\ gen.pos[p] >= 1
                   /\ gen.lines[p] = csv[p][gen.pos[p]]
                   /\ Emitted(p) \in {gen.pos[p] - 1, gen.pos[p]}
                   /\ Emitted(p) = gen.pos[p] => (gen.mpc = "yield" /\ p = Head(gen.keys))
              ELSE Emitted(p) = Len(csv[p]) /\ gen.pos[p] = Len(csv[p])
    /\ gen.mpc = "stop" => DOMAIN gen.lines = {}
    /\ pc = "main" =>
          \A p \in Paths : \A i \in 1..(gen.pos[p] - 1) :
              StrLeq(csv[p][i][join_col], groups[Len(groups)].id)

\* a GroupedRecord is handed over while two files each hold one row of a
\* greater join id and the third is exhausted
C15_Witness ==
    /\ pc = "main" /\ gen.mpc = "yield"
    /\ Cardinality(DOMAIN gen.lines) = 2
    /\ \E p \in Paths : Len(csv[p]) > 0 /\ p \notin DOMAIN gen.lines
    /\ \A p \in DOMAIN gen.lines :
          StrLess(groups[Len(groups)].id, gen.lines[p][join_col])

\* C16: among the triples merge_sort_files has yielded, the triples of one
\* file that carry one join id stand next to one another, with no triple of
\* another file between them, and follow the file's row order; when a triple
\* of another file follows, the file has no further row of that join id next
C16_SourceBlocks ==
    /\ \A i \in DOMAIN merged : \A k \in DOMAIN merged : \A j \in i..k :
          (merged[i][1] = merged[k][1] /\ merged[i][2] = merged[k][2])
              => merged[j][2] = merged[i][2]
    /\ \A i \in 1..(Len(merged) - 1) :
          (merged[i][1] = merged[i + 1][1] /\ merged[i][2] = merged[i + 1][2])
              => merged[i + 1][3].ln = merged[i][3].ln + 1
    /\ \A i \in 1..(Len(merged) - 1) :
          merged[i][2] # merged[i + 1][2] =>
              LET p == merged[i][2]
                  n == merged[i][3].ln
              IN  n = Len(csv[p]) \/ csv[p][n + 1][join_col] # merged[i][1]

\* a finished merge in which one join id has two rows of one file followed
\* or preceded by a row of another file
C16_Witness ==
    /\ pc = "done"
    /\ \E i \in 1..(Len(merged) - 2) :
          /\ merged[i][1] = merged[i + 1][1] /\ merged[i][1] = merged[i + 2][1]
          /\ \/ merged[i][2] = merged[i + 1][2] /\ merged[i + 1][2] # merged[i + 2][2]
             \/ merged[i][2] # merged[i + 1][2] /\ merged[i + 1][2] = merged[i + 2][2]

\* C17: an exception raised by transform ends the run where it is raised: it
\* is the run's exception and the run never completes, so a completed run
\* has printed a record for every group with an anchor row; the failing
\* step prints nothing and posts nothing, and once the run has ended in an
\* exception no further group is read, transformed or delivered and what
\* was printed or posted before stays as it was
C17_TransformFailureEndsRun ==
    /\ [](exc \in {"ValueError", "KeyError"} => pc = "raised")
    /\ [](pc = "done" => Len(printed) = Cardinality(AnchoredGroups))
    /\ [][exc' # exc => UNCHANGED <<printed, requests, groups, merged>>]_vars
    /\ [][pc = "raised" =>
              (pc' = "raised" /\ UNCHANGED <<printed, requests, groups, merged, count, exc>>)]_vars

\* transform has failed on the second group, the first record stays printed
\* and a later group is left unread; the abandoned generator has been closed
C17_Witness ==
    /\ exc \in {"ValueError", "KeyError"} /\ pc = "raised"
    /\ Len(printed) = 1 /\ Len(groups) = 2
    /\ pending # None
    /\ gen.mpc = "closed"

PresentTriples == {i \in DOMAIN call.mapping : call.mapping[i][1] \in DOMAIN call.data}

\* C18: a call of format_record_object on any row and any table of triples
\* with distinct target fields returns an object whose fields are the target
\* fields of the triples whose source column the row has, one field for each
\* such triple, holding the cast of the column's value, and "_localId"; a
\* triple whose column the row lacks adds no field, and the call raises only
\* when the cast of a column the row has raises
C18_FieldsOfPresentColumns ==
    /\ pc = "formatted" =>
          LET out == printed[1]
              m == call.mapping
          IN  /\ DOMAIN out = {m[i][2] : i \in PresentTriples} \cup {"_localId"}
              /\ Cardinality(DOMAIN out) = Cardinality(PresentTriples) + 1
              /\ \A i \in PresentTriples :
                    out[m[i][2]] = IF m[i][3] = "int" THEN IntOf(call.data[m[i][1]])
                                   ELSE call.data[m[i][1]]
    /\ pc = "raised" =>
          \E i \in PresentTriples :
              /\ call.mapping[i][3] = "int"
              /\ \E k \in DOMAIN call.data[call.mapping[i][1]] :
                    call.data[call.mapping[i][1]][k] \notin 0..9

\* a table of two triples, an int cast of a column that is present and holds
\* "10" and an int cast of a column the row lacks, applied with no error
C18_Witness ==
    /\ pc = "formatted"
    /\ Len(call.mapping) = 2
    /\ Cardinality(PresentTriples) = 1
    /\ \E i \in PresentTriples :
          /\ call.mapping[i][3] = "int"
          /\ call.data[call.mapping[i][1]] = <<1, 0>>
          /\ printed[1][call.mapping[i][2]] = 10
    /\ \E i \in DOMAIN call.mapping \ PresentTriples : call.mapping[i][3] = "int"

====
